---- MODULE Spec2Model ----
(***************************************************************************)
(* Model of cli/src/main.rs: collect_paths (path-set resolution) and the   *)
(* per-file loops of the parse and highlight commands.                     *)
(*                                                                         *)
(* A string is a sequence of one-character strings, so that starts_with,   *)
(* trim_start_matches, trim, lines and glob matching are computed on the   *)
(* characters.  The filesystem is one flat directory of regular files.     *)
(***************************************************************************)
EXTENDS Integers, Sequences, FiniteSets, TLC

VARIABLES
    fs,          \* names of the files that exist (the filesystem)
    paths_file,  \* collect_paths argument: Option<&str>, with the file behind it
    paths,       \* collect_paths argument: Option<iterator of specifiers>
    pc,          \* position of the invocation
    i,           \* number of specifiers the for loop has consumed
    result,      \* collect_paths: `result` vector / the returned Vec<String>
    ret,         \* what collect_paths returned
    should_track_stats, \* parse: --stat was given
    timeout,     \* parse: --timeout in microseconds, 0 for none
    scope,       \* --scope
    cancellation_flag,  \* the flag util::cancel_on_signal returned, set by SIGINT
    idx,         \* parse: number of paths the file loop has consumed
    has_error,   \* parse: some file's parse was not successful
    stats,       \* parse: parse::Stats
    runs,        \* the per-file engine calls so far: path, the value of the flag
                 \* passed, and what the call returned
    printed,     \* the statistics summary was printed
    exit_code,   \* the process's exit status, -1 while it runs
    command,     \* the subcommand of the invocation
    warnings     \* highlight: the paths a message on stderr said were passed over

cvars == <<fs, paths_file, paths, pc, i, result, ret>>
cvars_but_pc == <<fs, paths_file, paths, i, result, ret>>
pvars == <<should_track_stats, timeout, scope, cancellation_flag, idx, has_error,
           stats, runs, printed, exit_code>>
hvars == <<command, warnings>>
vars == <<fs, paths_file, paths, pc, i, result, ret, should_track_stats, timeout,
          scope, cancellation_flag, idx, has_error, stats, runs, printed,
          exit_code, command, warnings>>

\* ---------------------------------------------------------------- bounds
MaxSpecs == 3      \* longest specifier list
MaxContent == 4    \* longest paths-file content, in characters
MaxDuration == 2   \* longest measured parse

\* ---------------------------------------------------------------- strings
BANG == "!"
STAR == "*"
SP == " "
NL == "\n"
CR == "\r"

\* byte order of the characters used in file names
Rank(c) == CASE c = BANG -> 33 [] c = STAR -> 42 [] c = "a" -> 97 [] c = "b" -> 98
             [] OTHER -> 0

RECURSIVE LexLess(_, _)
LexLess(s, t) ==
    IF s = <<>> THEN t # <<>>
    ELSE IF t = <<>> THEN FALSE
    ELSE IF Head(s) = Head(t) THEN LexLess(Tail(s), Tail(t))
    ELSE Rank(Head(s)) < Rank(Head(t))

Count(p, s) == Cardinality({k \in 1..Len(s) : s[k] = p})
Range(s) == {s[k] : k \in 1..Len(s)}
NoDuplicates(s) == \A p \in Range(s) : Count(p, s) = 1

\* ---------------------------------------------------------------- inputs
FileNames == { <<"a">>, <<"b">>, <<BANG, "a">> }

Specifiers == { <<"a">>, <<"b">>, <<STAR>>, <<"a", STAR>>,
                <<BANG, "a">>, <<BANG, "b">>, <<BANG, STAR>>,
                <<BANG, BANG, "a">>, <<STAR, STAR, "a">> }

ContentChars == { "a", BANG, STAR, SP, NL, CR }

SeqsUpTo(S, n) == UNION { [1..k -> S] : k \in 0..n }

None == [given |-> FALSE]
Some(v) == [given |-> TRUE, value |-> v]
\* a paths file that cannot be read, and one that can
Unreadable == [given |-> TRUE, readable |-> FALSE, content |-> <<>>]
Readable(c) == [given |-> TRUE, readable |-> TRUE, content |-> c]

\* ---------------------------------------------------------------- str
IsWhitespace(c) == c \in {SP, NL, CR}

RECURSIVE TrimStart(_)
TrimStart(s) ==
    IF s # <<>> /\ IsWhitespace(Head(s)) THEN TrimStart(Tail(s)) ELSE s

RECURSIVE TrimEnd(_)
TrimEnd(s) ==
    IF s # <<>> /\ IsWhitespace(s[Len(s)]) THEN TrimEnd(SubSeq(s, 1, Len(s) - 1)) ELSE s

\* str::trim
Trim(s) == TrimEnd(TrimStart(s))

\* one line without its terminator: "\n", or "\r\n"
StripLineEnd(l) ==
    IF l # <<>> /\ l[Len(l)] = NL
    THEN LET m == SubSeq(l, 1, Len(l) - 1)
         IN IF m # <<>> /\ m[Len(m)] = CR THEN SubSeq(m, 1, Len(m) - 1) ELSE m
    ELSE l

\* index of the first "\n" of s, or 0
FirstNL(s) ==
    IF \E k \in 1..Len(s) : s[k] = NL
    THEN CHOOSE k \in 1..Len(s) : s[k] = NL /\ \A j \in 1..(k - 1) : s[j] # NL
    ELSE 0

\* str::lines: split_inclusive('\n'), each piece without its line ending
RECURSIVE Lines(_)
Lines(s) ==
    IF s = <<>> THEN <<>>
    ELSE LET k == FirstNL(s)
         IN IF k = 0 THEN <<s>>
            ELSE <<StripLineEnd(SubSeq(s, 1, k))>> \o Lines(SubSeq(s, k + 1, Len(s)))

\* str::starts_with('!')
StartsWithBang(s) == s # <<>> /\ Head(s) = BANG

\* str::trim_start_matches('!'): every leading '!' is removed
RECURSIVE TrimStartMatchesBang(_)
TrimStartMatchesBang(s) ==
    IF StartsWithBang(s) THEN TrimStartMatchesBang(Tail(s)) ELSE s

\* ---------------------------------------------------------------- filesystem
\* Path::exists
Exists(p) == p \in fs

\* glob::Pattern::new fails: a "**" that is not a whole path component
InvalidPattern(pat) ==
    /\ Len(pat) > 2
    /\ \E k \in 1..(Len(pat) - 1) : pat[k] = STAR /\ pat[k + 1] = STAR

\* glob::Pattern::matches for the component pattern pat: '*' matches any run
RECURSIVE Matches(_, _)
Matches(pat, name) ==
    IF pat = <<>> THEN name = <<>>
    ELSE IF Head(pat) = STAR
         THEN \/ Matches(Tail(pat), name)
              \/ name # <<>> /\ Matches(pat, Tail(name))
         ELSE name # <<>> /\ Head(pat) = Head(name) /\ Matches(Tail(pat), Tail(name))

\* glob(pat) on a valid pattern: the matching entries, sorted by name.
\* The recursive pattern "**" yields directories only, and there are none.
Glob(pat) ==
    IF pat = <<STAR, STAR>> THEN <<>>
    ELSE LET hits == {f \in fs : Matches(pat, f)}
         IN SortSeq(CHOOSE s \in [1..Cardinality(hits) -> hits] : Range(s) = hits,
                    LexLess)

\* ---------------------------------------------------------------- collect_paths
\* index of the first element of r equal to path, or 0 (Iterator::position)
Position(r, path) ==
    IF \E k \in 1..Len(r) : r[k] = path
    THEN CHOOSE k \in 1..Len(r) : r[k] = path /\ \A j \in 1..(k - 1) : r[j] # path
    ELSE 0

\* Vec::remove(index)
Remove(r, index) == SubSeq(r, 1, index - 1) \o SubSeq(r, index + 1, Len(r))

\* incorporate_path with the removal branch lost
incorporate_path_never_removes(r, path, positive) ==
    IF positive THEN Append(r, path) ELSE r

\* incorporate_path that moves a repeated path to the end instead of repeating it
incorporate_path_dedup(r, path, positive) ==
    IF positive THEN Append(SelectSeq(r, LAMBDA p : p # path), path)
    ELSE IF Position(r, path) # 0 THEN Remove(r, Position(r, path))
    ELSE r

\* incorporate_path that removes every occurrence (retain) instead of the first
incorporate_path_removes_all(r, path, positive) ==
    IF positive THEN Append(r, path) ELSE SelectSeq(r, LAMBDA p : p # path)

\* incorporate_path that inserts at index 0 instead of pushing
incorporate_path_inserts_first(r, path, positive) ==
    IF positive THEN <<path>> \o r
    ELSE IF Position(r, path) # 0 THEN Remove(r, Position(r, path))
    ELSE r

\* the closure incorporate_path, on the vector r
incorporate_path(r, path, positive) ==
    IF positive THEN Append(r, path)
    ELSE IF Position(r, path) # 0 THEN Remove(r, Position(r, path))
    ELSE r

\* incorporate_path over the paths a glob yields, in the order it yields them
RECURSIVE IncorporateAll(_, _, _)
IncorporateAll(r, yielded, positive) ==
    IF yielded = <<>> THEN r
    ELSE IncorporateAll(incorporate_path(r, Head(yielded), positive), Tail(yielded), positive)

\* the specifier's polarity and its pattern without the marker
Positive(spec) == ~StartsWithBang(spec)
Pattern(spec) == IF StartsWithBang(spec) THEN TrimStartMatchesBang(spec) ELSE spec

\* the concrete paths one specifier names: itself when it exists, else its glob
Expansion(spec) ==
    IF Exists(Pattern(spec)) THEN <<Pattern(spec)>> ELSE Glob(Pattern(spec))

\* glob(path) returns Err: the path does not exist and is no valid pattern
GlobFails(spec) == ~Exists(Pattern(spec)) /\ InvalidPattern(Pattern(spec))

\* the body of the for loop on one specifier whose glob does not fail
IncorporateSpecifier(r, spec) == IncorporateAll(r, Expansion(spec), Positive(spec))

\* the specifier branch of collect_paths as a function of the list l, from vector r
RECURSIVE ResolveFrom(_, _)
ResolveFrom(r, l) ==
    IF l = <<>> THEN [ret |-> IF r = <<>> THEN "no_files" ELSE "ok", result |-> r]
    ELSE IF GlobFails(Head(l)) THEN [ret |-> "invalid_glob", result |-> r]
    ELSE ResolveFrom(IncorporateSpecifier(r, Head(l)), Tail(l))

\* collect_paths(None, Some(l))
Resolve(l) == ResolveFrom(<<>>, l)

\* ReadPathsFile that gives the lines specifier semantics: negated lines are dropped
ReadPathsFileNegating ==
    /\ pc = "collect"
    /\ paths_file.given
    /\ IF paths_file.readable
       THEN /\ result' = SelectSeq(Lines(Trim(paths_file.content)), Positive)
            /\ ret' = "ok"
       ELSE /\ result' = <<>>
            /\ ret' = "read_failed"
    /\ pc' = "returned"
    /\ UNCHANGED <<fs, paths_file, paths, i>>
    /\ UNCHANGED pvars
    /\ UNCHANGED hvars

\* collect_paths was called with a paths file: it is read, trimmed and split
ReadPathsFile ==
    /\ pc = "collect"
    /\ paths_file.given
    /\ IF paths_file.readable
       THEN /\ result' = Lines(Trim(paths_file.content))
            /\ ret' = "ok"
       ELSE /\ result' = <<>>
            /\ ret' = "read_failed"
    /\ pc' = "returned"
    /\ UNCHANGED <<fs, paths_file, paths, i>>
    /\ UNCHANGED pvars
    /\ UNCHANGED hvars

\* no paths file, Some(paths): the result vector is created
BeginSpecifiers ==
    /\ pc = "collect"
    /\ ~paths_file.given
    /\ paths.given
    /\ result' = <<>>
    /\ i' = 0
    /\ pc' = "specifiers"
    /\ UNCHANGED <<fs, paths_file, paths, ret>>
    /\ UNCHANGED pvars
    /\ UNCHANGED hvars

\* neither a paths file nor paths
NoPaths ==
    /\ pc = "collect"
    /\ ~paths_file.given
    /\ ~paths.given
    /\ ret' = "must_provide"
    /\ pc' = "returned"
    /\ UNCHANGED <<fs, paths_file, paths, i, result>>
    /\ UNCHANGED pvars
    /\ UNCHANGED hvars

\* one iteration of `for mut path in paths`
ProcessSpecifier ==
    /\ pc = "specifiers"
    /\ i < Len(paths.value)
    /\ LET spec == paths.value[i + 1]
       IN IF GlobFails(spec)
          THEN /\ ret' = "invalid_glob"
               /\ pc' = "returned"
               /\ UNCHANGED <<i, result>>
          ELSE /\ result' = IncorporateSpecifier(result, spec)
               /\ i' = i + 1
               /\ UNCHANGED <<pc, ret>>
    /\ UNCHANGED <<fs, paths_file, paths>>
    /\ UNCHANGED pvars
    /\ UNCHANGED hvars

\* FinishSpecifiers without the is_empty check
FinishSpecifiersUnchecked ==
    /\ pc = "specifiers"
    /\ i = Len(paths.value)
    /\ ret' = "ok"
    /\ pc' = "returned"
    /\ UNCHANGED <<fs, paths_file, paths, i, result>>
    /\ UNCHANGED pvars
    /\ UNCHANGED hvars

\* after the loop: an empty vector is an error
FinishSpecifiers ==
    /\ pc = "specifiers"
    /\ i = Len(paths.value)
    /\ ret' = IF result = <<>> THEN "no_files" ELSE "ok"
    /\ pc' = "returned"
    /\ UNCHANGED <<fs, paths_file, paths, i, result>>
    /\ UNCHANGED pvars
    /\ UNCHANGED hvars

CollectPaths ==
    \/ ReadPathsFile
    \/ BeginSpecifiers
    \/ NoPaths
    \/ ProcessSpecifier
    \/ FinishSpecifiers

\* ---------------------------------------------------------------- parse
DefaultStats == [total_parses |-> 0, successful_parses |-> 0,
                 total_bytes |-> 0, total_duration |-> 0]

\* the locals of the parse command before its file loop
ParseInit ==
    /\ cancellation_flag = FALSE
    /\ idx = 0
    /\ has_error = FALSE
    /\ stats = DefaultStats
    /\ runs = <<>>
    /\ printed = FALSE
    /\ exit_code = -1

\* the names the grammar registry has a language for, and the scopes it knows
LanguageFiles == { <<"a">>, <<BANG, "a">>, <<STAR>> }
KnownScopes == { "source.a" }

\* loader.select_language(path, current_dir, scope) returns Ok
SelectLanguageOk(path) ==
    IF scope.given THEN scope.value \in KnownScopes ELSE path \in LanguageFiles

\* the size of the source file at path, in bytes
FileSize(path) == CASE path = <<"a">> -> 1 [] path = <<"b">> -> 2 [] OTHER -> 3

\* the ParseResult values parse_file_at_path can return for the file at path: a
\* parse that timed out needs a timeout, a cancelled one needs the flag to be
\* set, and a file that cannot be read gives no ParseResult
ParseResults(path) ==
    { [kind |-> k, successful |-> (k = "succeeded"), bytes |-> FileSize(path),
       duration |-> d] :
        k \in IF Exists(path)
              THEN {"succeeded", "failed"}
                     \cup (IF timeout > 0 THEN {"timed_out"} ELSE {})
                     \cup (IF cancellation_flag THEN {"cancelled"} ELSE {})
              ELSE {},
        d \in {None} \cup {Some(n) : n \in 1..MaxDuration} }

\* TrackStats with `total_parses += 1` inside `if parse_result.successful`
TrackStatsCountsSuccessesOnly(st, r) ==
    [total_parses |-> st.total_parses + (IF r.successful THEN 1 ELSE 0),
     successful_parses |-> st.successful_parses + (IF r.successful THEN 1 ELSE 0),
     total_bytes |-> st.total_bytes + (IF r.duration.given THEN r.bytes ELSE 0),
     total_duration |-> st.total_duration
                          + (IF r.duration.given THEN r.duration.value ELSE 0)]

\* TrackStats with `total_bytes += bytes` outside `if let Some(duration)`
TrackStatsBytesAlways(st, r) ==
    [total_parses |-> st.total_parses + 1,
     successful_parses |-> st.successful_parses + (IF r.successful THEN 1 ELSE 0),
     total_bytes |-> st.total_bytes + r.bytes,
     total_duration |-> st.total_duration
                          + (IF r.duration.given THEN r.duration.value ELSE 0)]

\* TrackStats that also adds the bytes of a parse that was not successful
TrackStatsBytesOfFaults(st, r) ==
    [total_parses |-> st.total_parses + 1,
     successful_parses |-> st.successful_parses + (IF r.successful THEN 1 ELSE 0),
     total_bytes |-> st.total_bytes
                       + (IF r.duration.given \/ ~r.successful THEN r.bytes ELSE 0),
     total_duration |-> st.total_duration
                          + (IF r.duration.given THEN r.duration.value ELSE 0)]

\* TrackStats with `total_bytes = bytes` in place of `total_bytes += bytes`
TrackStatsAssignsBytes(st, r) ==
    [total_parses |-> st.total_parses + 1,
     successful_parses |-> st.successful_parses + (IF r.successful THEN 1 ELSE 0),
     total_bytes |-> IF r.duration.given THEN r.bytes ELSE st.total_bytes,
     total_duration |-> st.total_duration
                          + (IF r.duration.given THEN r.duration.value ELSE 0)]

\* the statistics block of the loop body, on Stats st and ParseResult r
TrackStats(st, r) ==
    [total_parses |-> st.total_parses + 1,
     successful_parses |-> st.successful_parses + (IF r.successful THEN 1 ELSE 0),
     total_bytes |-> st.total_bytes + (IF r.duration.given THEN r.bytes ELSE 0),
     total_duration |-> st.total_duration
                          + (IF r.duration.given THEN r.duration.value ELSE 0)]

\* `collect_paths(...)?` returned Err: run returns it and main exits with 1
ParseCollectFailed ==
    /\ command = "parse"
    /\ pc = "returned"
    /\ ret # "ok"
    /\ exit_code' = 1
    /\ pc' = "exited"
    /\ UNCHANGED cvars_but_pc
    /\ UNCHANGED hvars
    /\ UNCHANGED <<should_track_stats, timeout, scope, cancellation_flag, idx,
                   has_error, stats, runs, printed>>

\* collect_paths returned Ok: the loop's locals are set up
ParseBegin ==
    /\ command = "parse"
    /\ pc = "returned"
    /\ ret = "ok"
    /\ has_error' = FALSE
    /\ stats' = DefaultStats
    /\ idx' = 0
    /\ pc' = "loop"
    /\ UNCHANGED cvars_but_pc
    /\ UNCHANGED hvars
    /\ UNCHANGED <<should_track_stats, timeout, scope, cancellation_flag, runs,
                   printed, exit_code>>

\* `has_error = !successful` in place of `has_error |= !successful`
HasErrorOverwritten(he, r) == ~r.successful

\* has_error after the ParseResult r
HasErrorAfter(he, r) == he \/ ~r.successful

\* ParseFile that leaves the loop at the first parse that is not successful
ParseFileStopsOnFault ==
    /\ pc = "loop"
    /\ idx < Len(result)
    /\ SelectLanguageOk(result[idx + 1])
    /\ \E r \in ParseResults(result[idx + 1]) :
          /\ runs' = Append(runs, [path |-> result[idx + 1], flag |-> cancellation_flag,
                               returned |-> Some(r)])
          /\ stats' = IF should_track_stats THEN TrackStats(stats, r) ELSE stats
          /\ has_error' = HasErrorAfter(has_error, r)
          /\ pc' = IF r.successful THEN pc ELSE "exited"
          /\ exit_code' = IF r.successful THEN exit_code ELSE 1
    /\ idx' = idx + 1
    /\ UNCHANGED cvars_but_pc
    /\ UNCHANGED hvars
    /\ UNCHANGED <<should_track_stats, timeout, scope, cancellation_flag, printed>>

\* ParseFile that clears the cancellation flag after each file
ParseFileResetsFlag ==
    /\ pc = "loop"
    /\ idx < Len(result)
    /\ SelectLanguageOk(result[idx + 1])
    /\ \E r \in ParseResults(result[idx + 1]) :
          /\ runs' = Append(runs, [path |-> result[idx + 1], flag |-> cancellation_flag,
                               returned |-> Some(r)])
          /\ stats' = IF should_track_stats THEN TrackStats(stats, r) ELSE stats
          /\ has_error' = HasErrorAfter(has_error, r)
    /\ idx' = idx + 1
    /\ cancellation_flag' = FALSE
    /\ UNCHANGED cvars
    /\ UNCHANGED hvars
    /\ UNCHANGED <<should_track_stats, timeout, scope, printed, exit_code>>

\* one iteration of `for path in paths` whose `?` operators all pass
ParseFile ==
    /\ pc = "loop"
    /\ idx < Len(result)
    /\ SelectLanguageOk(result[idx + 1])
    /\ \E r \in ParseResults(result[idx + 1]) :
          /\ runs' = Append(runs, [path |-> result[idx + 1], flag |-> cancellation_flag,
                               returned |-> Some(r)])
          /\ stats' = IF should_track_stats THEN TrackStats(stats, r) ELSE stats
          /\ has_error' = HasErrorAfter(has_error, r)
    /\ idx' = idx + 1
    /\ UNCHANGED cvars
    /\ UNCHANGED hvars
    /\ UNCHANGED <<should_track_stats, timeout, scope, cancellation_flag, printed,
                   exit_code>>

\* ParseNoLanguage that passes the path over and goes on, as highlight does
ParseNoLanguageSkips ==
    /\ pc = "loop"
    /\ idx < Len(result)
    /\ ~SelectLanguageOk(result[idx + 1])
    /\ idx' = idx + 1
    /\ UNCHANGED cvars
    /\ UNCHANGED hvars
    /\ UNCHANGED <<should_track_stats, timeout, scope, cancellation_flag,
                   has_error, stats, runs, printed, exit_code>>

\* an iteration in which select_language returns Err: run returns it
ParseNoLanguage ==
    /\ pc = "loop"
    /\ idx < Len(result)
    /\ ~SelectLanguageOk(result[idx + 1])
    /\ exit_code' = 1
    /\ pc' = "exited"
    /\ UNCHANGED cvars_but_pc
    /\ UNCHANGED hvars
    /\ UNCHANGED <<should_track_stats, timeout, scope, cancellation_flag, idx,
                   has_error, stats, runs, printed>>

\* an iteration in which parse_file_at_path returns Err: run returns it
ParseFileError ==
    /\ pc = "loop"
    /\ idx < Len(result)
    /\ SelectLanguageOk(result[idx + 1])
    /\ runs' = Append(runs, [path |-> result[idx + 1], flag |-> cancellation_flag,
                             returned |-> None])
    /\ exit_code' = 1
    /\ pc' = "exited"
    /\ UNCHANGED cvars_but_pc
    /\ UNCHANGED hvars
    /\ UNCHANGED <<should_track_stats, timeout, scope, cancellation_flag, idx,
                   has_error, stats, printed>>

\* after the loop: the summary is printed, and has_error decides the verdict
ParseFinish ==
    /\ pc = "loop"
    /\ idx = Len(result)
    /\ printed' = should_track_stats
    /\ exit_code' = IF has_error THEN 1 ELSE 0
    /\ pc' = "exited"
    /\ UNCHANGED cvars_but_pc
    /\ UNCHANGED hvars
    /\ UNCHANGED <<should_track_stats, timeout, scope, cancellation_flag, idx,
                   has_error, stats, runs>>

\* the signal handler cancel_on_signal installed stores into the flag
Interrupt ==
    /\ command = "parse"
    /\ pc # "exited"
    /\ ~cancellation_flag
    /\ cancellation_flag' = TRUE
    /\ UNCHANGED cvars
    /\ UNCHANGED hvars
    /\ UNCHANGED <<should_track_stats, timeout, scope, idx, has_error, stats, runs,
                   printed, exit_code>>

\* the arguments a command line can produce, over any filesystem
InitCollect ==
    /\ fs \in SUBSET FileNames
    /\ \/ /\ paths_file = None
          /\ paths \in {None} \cup {Some(l) : l \in SeqsUpTo(Specifiers, MaxSpecs)}
       \/ /\ paths_file \in {Unreadable} \cup {Readable(c) : c \in SeqsUpTo(ContentChars, MaxContent)}
          /\ paths \in {None, Some(<<<<"a">>>>), Some(<<<<BANG, "a">>, <<STAR>>>>)}
    /\ pc = "collect"
    /\ i = 0
    /\ result = <<>>
    /\ ret = "none"
    /\ should_track_stats = FALSE
    /\ timeout = 0
    /\ scope = None
    /\ ParseInit
    /\ command = "parse"
    /\ warnings = <<>>

SpecCollect == InitCollect /\ [][CollectPaths]_vars

\* the specifiers and paths files of the parse invocations explored
ParseSpecifierLists ==
    { <<>>, << <<"a">> >>, << <<STAR>> >>, << <<STAR>>, <<BANG, "b">> >>,
      << <<"a">>, <<BANG, "a">> >>, << <<"a">>, <<"a">>, <<"a", STAR>> >>,
      << <<"a">>, <<STAR, STAR, "a">> >> }
ParseContents == { <<>>, <<"a", NL, "b">>, <<"a", NL, STAR>> }

\* a parse invocation: its arguments
Init ==
    /\ fs \in { {<<"a">>, <<"b">>}, FileNames }
    /\ \/ /\ paths_file = None
          /\ paths \in {None} \cup {Some(l) : l \in ParseSpecifierLists}
       \/ /\ paths_file \in {Unreadable} \cup {Readable(c) : c \in ParseContents}
          /\ paths = None
    /\ pc = "collect"
    /\ i = 0
    /\ result = <<>>
    /\ ret = "none"
    /\ should_track_stats \in BOOLEAN
    /\ timeout \in {0, 1}
    /\ scope \in {None, Some("source.a"), Some("source.zz")}
    /\ ParseInit
    /\ command = "parse"
    /\ warnings = <<>>

Next ==
    \/ CollectPaths
    \/ ParseCollectFailed
    \/ ParseBegin
    \/ ParseFile
    \/ ParseNoLanguage
    \/ ParseFileError
    \/ ParseFinish
    \/ Interrupt

Spec == Init /\ [][Next]_vars

\* ---------------------------------------------------------------- highlight
\* the language of the loop body: the scope's, else the one found by file name
HighlightLanguageOk(path) ==
    IF scope.given THEN scope.value \in KnownScopes ELSE path \in LanguageFiles

\* `collect_paths(...)?` returned Err: run returns it and main exits with 1
HighlightCollectFailed ==
    /\ command = "highlight"
    /\ pc = "returned"
    /\ ret # "ok"
    /\ exit_code' = 1
    /\ pc' = "exited"
    /\ UNCHANGED cvars_but_pc
    /\ UNCHANGED hvars
    /\ UNCHANGED <<should_track_stats, timeout, scope, cancellation_flag, idx,
                   has_error, stats, runs, printed>>

\* collect_paths returned Ok: the flag is created and the scope is looked up
HighlightBegin ==
    /\ command = "highlight"
    /\ pc = "returned"
    /\ ret = "ok"
    /\ cancellation_flag' = FALSE
    /\ idx' = 0
    /\ IF scope.given /\ scope.value \notin KnownScopes
       THEN exit_code' = 1 /\ pc' = "exited"
       ELSE exit_code' = exit_code /\ pc' = "highlight"
    /\ UNCHANGED cvars_but_pc
    /\ UNCHANGED hvars
    /\ UNCHANGED <<should_track_stats, timeout, scope, has_error, stats, runs,
                   printed>>

\* HighlightSkip that treats the missing language as an error after the message
HighlightSkipFatal ==
    /\ pc = "highlight"
    /\ idx < Len(result)
    /\ ~HighlightLanguageOk(result[idx + 1])
    /\ warnings' = Append(warnings, [path |-> result[idx + 1], message |-> "no language"])
    /\ exit_code' = 1
    /\ pc' = "exited"
    /\ UNCHANGED cvars_but_pc
    /\ UNCHANGED <<should_track_stats, timeout, scope, cancellation_flag, idx,
                   has_error, stats, runs, printed, command>>

\* no scope and no language for the file name: a message, and `continue`
HighlightSkip ==
    /\ pc = "highlight"
    /\ idx < Len(result)
    /\ ~HighlightLanguageOk(result[idx + 1])
    /\ warnings' = Append(warnings, [path |-> result[idx + 1], message |-> "no language"])
    /\ idx' = idx + 1
    /\ UNCHANGED cvars
    /\ UNCHANGED <<should_track_stats, timeout, scope, cancellation_flag,
                   has_error, stats, runs, printed, exit_code, command>>

\* the language has no highlight configuration: a message, and the next path
HighlightNoConfig ==
    /\ pc = "highlight"
    /\ idx < Len(result)
    /\ HighlightLanguageOk(result[idx + 1])
    /\ warnings' = Append(warnings, [path |-> result[idx + 1], message |-> "no config"])
    /\ idx' = idx + 1
    /\ UNCHANGED cvars
    /\ UNCHANGED <<should_track_stats, timeout, scope, cancellation_flag,
                   has_error, stats, runs, printed, exit_code, command>>

\* the file is read and highlight::html or highlight::ansi returns Ok
HighlightFile ==
    /\ pc = "highlight"
    /\ idx < Len(result)
    /\ HighlightLanguageOk(result[idx + 1])
    /\ Exists(result[idx + 1])
    /\ runs' = Append(runs, [path |-> result[idx + 1], flag |-> cancellation_flag,
                             returned |-> Some("highlighted")])
    /\ idx' = idx + 1
    /\ UNCHANGED cvars
    /\ UNCHANGED hvars
    /\ UNCHANGED <<should_track_stats, timeout, scope, cancellation_flag,
                   has_error, stats, printed, exit_code>>

\* a `?` before the highlighter is called returns Err: the lookup by file
\* name, highlight_config, or fs::read
HighlightLoadError ==
    /\ pc = "highlight"
    /\ idx < Len(result)
    /\ exit_code' = 1
    /\ pc' = "exited"
    /\ UNCHANGED cvars_but_pc
    /\ UNCHANGED hvars
    /\ UNCHANGED <<should_track_stats, timeout, scope, cancellation_flag, idx,
                   has_error, stats, runs, printed>>

\* highlight::html or highlight::ansi returns Err: run returns it
HighlightEngineError ==
    /\ pc = "highlight"
    /\ idx < Len(result)
    /\ HighlightLanguageOk(result[idx + 1])
    /\ Exists(result[idx + 1])
    /\ runs' = Append(runs, [path |-> result[idx + 1], flag |-> cancellation_flag,
                             returned |-> None])
    /\ exit_code' = 1
    /\ pc' = "exited"
    /\ UNCHANGED cvars_but_pc
    /\ UNCHANGED hvars
    /\ UNCHANGED <<should_track_stats, timeout, scope, cancellation_flag, idx,
                   has_error, stats, printed>>

\* after the loop run returns Ok(())
HighlightFinish ==
    /\ pc = "highlight"
    /\ idx = Len(result)
    /\ exit_code' = 0
    /\ pc' = "exited"
    /\ UNCHANGED cvars_but_pc
    /\ UNCHANGED hvars
    /\ UNCHANGED <<should_track_stats, timeout, scope, cancellation_flag, idx,
                   has_error, stats, runs, printed>>

\* the signal handler stores into the flag, which exists from HighlightBegin on
HighlightInterrupt ==
    /\ pc = "highlight"
    /\ ~cancellation_flag
    /\ cancellation_flag' = TRUE
    /\ UNCHANGED cvars
    /\ UNCHANGED hvars
    /\ UNCHANGED <<should_track_stats, timeout, scope, idx, has_error, stats, runs,
                   printed, exit_code>>

\* the specifiers of the highlight invocations explored
HighlightSpecifierLists ==
    { <<>>, << <<"b">>, <<"a">> >>, << <<STAR>> >>, << <<"b">> >>,
      << <<STAR>>, <<"b">>, <<"a">> >>, << <<"a">>, <<STAR, STAR, "a">> >> }

\* a highlight invocation: its arguments
InitHighlight ==
    /\ fs \in { {<<"a">>, <<"b">>}, FileNames }
    /\ \/ /\ paths_file = None
          /\ paths \in {None} \cup {Some(l) : l \in HighlightSpecifierLists}
       \/ /\ paths_file \in {Unreadable} \cup {Readable(c) : c \in ParseContents}
          /\ paths = None
    /\ pc = "collect"
    /\ i = 0
    /\ result = <<>>
    /\ ret = "none"
    /\ should_track_stats = FALSE
    /\ timeout = 0
    /\ scope \in {None, Some("source.a"), Some("source.zz")}
    /\ ParseInit
    /\ command = "highlight"
    /\ warnings = <<>>

NextHighlight ==
    \/ CollectPaths
    \/ HighlightCollectFailed
    \/ HighlightBegin
    \/ HighlightSkip
    \/ HighlightNoConfig
    \/ HighlightFile
    \/ HighlightLoadError
    \/ HighlightEngineError
    \/ HighlightFinish
    \/ HighlightInterrupt

SpecHighlight == InitHighlight /\ [][NextHighlight]_vars

\* an invocation of either command
InitCli == Init \/ InitHighlight

NextCli ==
    \/ Next
    \/ HighlightCollectFailed
    \/ HighlightBegin
    \/ HighlightSkip
    \/ HighlightNoConfig
    \/ HighlightFile
    \/ HighlightLoadError
    \/ HighlightEngineError
    \/ HighlightFinish
    \/ HighlightInterrupt

SpecCli == InitCli /\ [][NextCli]_vars

\* ---------------------------------------------------------------- claims: collect_paths
\* collect_paths returned Ok from the specifier branch
ReturnedFromSpecifiers == pc = "returned" /\ ret = "ok" /\ ~paths_file.given

\* the elements of s at the indexes in keep, in order, from index k on
RECURSIVE KeepFrom(_, _, _)
KeepFrom(s, keep, k) ==
    IF k > Len(s) THEN <<>>
    ELSE (IF k \in keep THEN <<s[k]>> ELSE <<>>) \o KeepFrom(s, keep, k + 1)

\* every (path, polarity) pair the specifiers of l hand to incorporate_path, in order
RECURSIVE Yields(_)
Yields(l) ==
    IF l = <<>> THEN <<>>
    ELSE [k \in 1..Len(Expansion(Head(l))) |->
             [path |-> Expansion(Head(l))[k], positive |-> Positive(Head(l))]]
         \o Yields(Tail(l))

\* no path is appended twice without a removal of that path in between
RepushFree(y) ==
    \A j, k \in 1..Len(y) :
        (j < k /\ y[j].positive /\ y[k].positive /\ y[j].path = y[k].path)
            => \E m \in (j + 1)..(k - 1) : ~y[m].positive /\ y[m].path = y[j].path

RECURSIVE ExpansionsInOrder(_)
ExpansionsInOrder(l) ==
    IF l = <<>> THEN <<>> ELSE Expansion(Head(l)) \o ExpansionsInOrder(Tail(l))

\* each path once, where its last append put it
DedupByAppend(s) ==
    KeepFrom(s, {k \in 1..Len(s) : \A j \in (k + 1)..Len(s) : s[j] # s[k]}, 1)

AllPositive(l) == \A k \in 1..Len(l) : Positive(l[k])

\* C2 as stated: without negated specifiers the result is the
\* deduplicated-by-append union of the expansions in input order.
C2_DedupUnion ==
    (ReturnedFromSpecifiers /\ AllPositive(paths.value))
        => result = DedupByAppend(ExpansionsInOrder(paths.value))

\* C2 amended: without negated specifiers the result is the concatenation of
\* the expansions of the specifiers in input order, repeated paths kept.
C2_Concatenation ==
    (ReturnedFromSpecifiers /\ AllPositive(paths.value))
        => result = ExpansionsInOrder(paths.value)

C2_Witness ==
    /\ ReturnedFromSpecifiers
    /\ AllPositive(paths.value)
    /\ Len(paths.value) >= 2
    /\ \E k \in 1..Len(paths.value) : Len(Expansion(paths.value[k])) >= 2
    /\ ~NoDuplicates(result)

\* the loop has just processed specifier i, and it is a negated one
AfterNegated == i > 0 /\ ~Positive(paths.value[i])

\* C3 as stated: right after a negated specifier has been processed no path it
\* names or expands to remains in the result.
C3_NoneRemains ==
    AfterNegated => \A p \in Range(Expansion(paths.value[i])) : p \notin Range(result)

\* C3 amended: processing a negated specifier removes the first occurrence of
\* each path it names or expands to and nothing else (so such a path remains
\* exactly when the list held it more than once), and leaves the list unchanged
\* when none of its paths is in it.
C3_FirstOccurrenceRemoved ==
    [][(pc = "specifiers" /\ i' = i + 1 /\ ~Positive(paths.value[i']))
         => LET exp == Range(Expansion(paths.value[i']))
            IN /\ result' = KeepFrom(result,
                                {k \in 1..Len(result) :
                                    ~(result[k] \in exp
                                      /\ \A j \in 1..(k - 1) : result[j] # result[k])}, 1)
               /\ \A p \in exp : Count(p, result') = IF Count(p, result) = 0 THEN 0
                                                     ELSE Count(p, result) - 1
               /\ (exp \cap Range(result) = {} => result' = result)]_vars

C3_Witness ==
    /\ AfterNegated
    /\ \E p \in Range(Expansion(paths.value[i])) : p \in Range(result)

\* specifier k of l is a negated one that took path p out of the vector
RemovedAt(l, k, p) ==
    /\ ~Positive(l[k])
    /\ p \in Range(Expansion(l[k]))
    /\ p \in Range(ResolveFrom(<<>>, SubSeq(l, 1, k - 1)).result)

\* the loop has just processed specifier i, a positive literal path that an
\* earlier negated specifier removed
AfterReAdd ==
    /\ i > 0
    /\ Positive(paths.value[i])
    /\ Exists(paths.value[i])
    /\ \E k \in 1..(i - 1) : RemovedAt(paths.value, k, paths.value[i])

\* C4: a positive specifier for a path that an earlier negated specifier removed
\* puts it back as the last element; ["a","!a","a"] over an existing a gives ["a"].
C4_ReAddedLast ==
    /\ AfterReAdd => (result # <<>> /\ result[Len(result)] = paths.value[i])
    /\ (/\ pc = "returned" /\ ~paths_file.given /\ <<"a">> \in fs
        /\ paths = Some(<< <<"a">>, <<BANG, "a">>, <<"a">> >>))
           => (ret = "ok" /\ result = << <<"a">> >>)

C4_Witness ==
    /\ AfterReAdd
    /\ Len(result) >= 2
    /\ paths.value[1] = <<STAR>>
    /\ paths.value[i] = <<"a">>

\* C5 as stated: whenever collect_paths returns success the list is non-empty,
\* also when it comes from a paths file.
C5_SuccessNonEmpty == (pc = "returned" /\ ret = "ok") => result # <<>>

\* C6: without a paths file, a specifier list whose patterns are all valid and
\* whose net result is empty gives the "no files" error, never Ok with an empty
\* list; with neither argument the error is "must provide paths".
C6_EmptyIsError ==
    (pc = "returned" /\ ~paths_file.given)
        => /\ ~paths.given => ret = "must_provide"
           /\ paths.given => ret # "must_provide"
           /\ (paths.given /\ ret # "invalid_glob")
                 => /\ (result = <<>>) <=> (ret = "no_files")
                    /\ (result # <<>>) <=> (ret = "ok")
           /\ (/\ paths.given
               /\ \A k \in 1..Len(paths.value) :
                     ~InvalidPattern(Pattern(paths.value[k]))
                     /\ \A f \in fs : ~Matches(Pattern(paths.value[k]), f))
                 => ret = "no_files"

C6_Witness ==
    /\ pc = "returned" /\ ~paths_file.given /\ paths.given
    /\ ret = "no_files"
    /\ \E k \in 1..Len(paths.value) :
          Positive(paths.value[k]) /\ Expansion(paths.value[k]) # <<>>

\* the lines of ls joined by "\n"
RECURSIVE Join(_)
Join(ls) ==
    IF ls = <<>> THEN <<>>
    ELSE IF Len(ls) = 1 THEN Head(ls)
    ELSE Head(ls) \o <<NL>> \o Join(Tail(ls))

\* s with every "\r\n" written as "\n"
RECURSIVE UnixLineEnds(_)
UnixLineEnds(s) ==
    IF s = <<>> THEN <<>>
    ELSE IF Len(s) >= 2 /\ s[1] = CR /\ s[2] = NL THEN UnixLineEnds(Tail(s))
    ELSE <<Head(s)>> \o UnixLineEnds(Tail(s))

\* C7: with a paths file the result is exactly the lines of the trimmed content,
\* in file order: joined by newlines they give the trimmed content back, no line
\* is expanded, dropped or negated, and the specifiers play no part.
C7_PathsFileVerbatim ==
    (pc = "returned" /\ paths_file.given /\ paths_file.readable)
        => LET t == Trim(paths_file.content)
           IN /\ ret = "ok"
              /\ i = 0
              /\ Join(result) = UnixLineEnds(t)
              /\ \A k \in 1..Len(result) : NL \notin Range(result[k])
              /\ Len(result) = IF t = <<>> THEN 0 ELSE Count(NL, t) + 1

C7_Witness ==
    /\ pc = "returned" /\ paths_file.given /\ paths_file.readable
    /\ paths.given
    /\ <<"a">> \in fs
    /\ result = << <<BANG, "a">>, <<STAR>> >>

\* C8 as stated: resolving the elements of a successful result R again, as
\* specifiers over the same filesystem, returns R.
C8_Idempotent ==
    ReturnedFromSpecifiers => Resolve(result) = [ret |-> "ok", result |-> result]

\* C8 amended: resolving R again returns R provided no element of R begins
\* with the negation marker '!'.
C8_IdempotentWithoutMarker ==
    (ReturnedFromSpecifiers /\ \A p \in Range(result) : ~StartsWithBang(p))
        => Resolve(result) = [ret |-> "ok", result |-> result]

C8_Witness ==
    /\ ReturnedFromSpecifiers
    /\ \A p \in Range(result) : ~StartsWithBang(p)
    /\ ~AllPositive(paths.value)
    /\ Len(result) >= 2
    /\ \E k \in 1..Len(paths.value) : Len(Expansion(paths.value[k])) >= 2

\* ---------------------------------------------------------------- claims: parse
\* the loop was left by a `?`: the last call returned Err, or the next path has
\* no language
HardStop ==
    \/ runs # <<>> /\ ~runs[Len(runs)].returned.given
    \/ Len(runs) < Len(result) /\ ~SelectLanguageOk(result[Len(runs) + 1])

\* the parse command ended after its file loop ran to its end
LoopRanToEnd == pc = "exited" /\ ret = "ok" /\ ~HardStop

\* run k ended Failed, TimedOut or Cancelled
Fault(k) == runs[k].returned.given /\ ~runs[k].returned.value.successful

\* C9: when the file loop runs to its end the process exits with failure if and
\* only if some file's parse was not successful, with and without --stat.
C9_VerdictIffAnyFault ==
    LoopRanToEnd => /\ exit_code \in {0, 1}
                    /\ (exit_code = 1) <=> (\E k \in 1..Len(runs) : Fault(k))

C9_Witness ==
    /\ LoopRanToEnd
    /\ ~should_track_stats
    /\ Len(runs) = 3
    /\ Fault(1) /\ ~Fault(2) /\ ~Fault(3)
    /\ exit_code = 1

\* C10: a parse that is not successful never ends the file loop: the calls made
\* so far are the first paths of the resolved set, one each and in its order, no
\* verdict exists while the loop runs, and a loop that no `?` left has called the
\* parser on every path.
C10_FaultsDoNotEndLoop ==
    /\ Len(runs) <= Len(result)
    /\ \A k \in 1..Len(runs) : runs[k].path = result[k]
    /\ pc = "loop" => (exit_code = -1 /\ Len(runs) = idx)
    /\ LoopRanToEnd => Len(runs) = Len(result)

C10_Witness ==
    /\ LoopRanToEnd
    /\ Len(runs) = 3
    /\ runs[1].returned.value.kind = "timed_out"
    /\ runs[2].returned.value.kind = "failed"
    /\ runs[3].returned.value.kind = "succeeded"
    /\ exit_code = 1

\* the runs that returned a ParseResult, and those of them that succeeded
Completed == {k \in 1..Len(runs) : runs[k].returned.given}
Succeeded == {k \in Completed : runs[k].returned.value.successful}

\* C11 as stated: after n files of which s succeeded, total_parses = n and
\* successful_parses = s.
C11_RunCounters ==
    command = "parse"
        => /\ stats.total_parses = Cardinality(Completed)
           /\ stats.successful_parses = Cardinality(Succeeded)

\* C11 amended: the same, when the statistics are tracked (--stat); two
\* successes and one timeout then give total 3, successful 2 and a failure.
C11_RunCountersWhenTracked ==
    (command = "parse" /\ should_track_stats)
        => /\ stats.total_parses = Cardinality(Completed)
           /\ stats.successful_parses = Cardinality(Succeeded)
           /\ (/\ LoopRanToEnd /\ Len(runs) = 3
               /\ Cardinality(Succeeded) = 2
               /\ \E k \in 1..3 : runs[k].returned.value.kind = "timed_out")
                 => (stats.total_parses = 3 /\ stats.successful_parses = 2
                     /\ exit_code = 1)

C11_Witness ==
    /\ command = "parse" /\ should_track_stats
    /\ LoopRanToEnd /\ Len(runs) = 3
    /\ Cardinality(Succeeded) = 2
    /\ runs[2].returned.value.kind = "timed_out"

\* the loop body has just handled a ParseResult, with the statistics tracked
Folded ==
    /\ command = "parse" /\ should_track_stats
    /\ Len(runs') = Len(runs) + 1
    /\ runs'[Len(runs')].returned.given

\* C12: folding one ParseResult adds its bytes and its duration to the totals
\* exactly when it carries a duration; without one both totals stay, and the
\* run counter advances either way.
C12_TotalsOnlyWhenMeasured ==
    [][Folded =>
         LET r == runs'[Len(runs')].returned.value
         IN /\ stats'.total_parses = stats.total_parses + 1
            /\ IF r.duration.given
               THEN /\ stats'.total_bytes = stats.total_bytes + r.bytes
                    /\ stats'.total_duration = stats.total_duration + r.duration.value
               ELSE /\ stats'.total_bytes = stats.total_bytes
                    /\ stats'.total_duration = stats.total_duration]_vars

C12_Witness ==
    /\ command = "parse" /\ should_track_stats
    /\ Len(runs) = 2
    /\ runs[1].returned.given /\ ~runs[1].returned.value.duration.given
    /\ runs[2].returned.given /\ runs[2].returned.value.duration.given
    /\ stats.total_parses = 2
    /\ stats.total_bytes = runs[2].returned.value.bytes
    /\ stats.total_duration = runs[2].returned.value.duration.value

\* the measured runs, and what they add up to
RECURSIVE SumOver(_, _)
SumOver(f(_), S) ==
    IF S = {} THEN 0 ELSE LET k == CHOOSE x \in S : TRUE IN f(k) + SumOver(f, S \ {k})

BytesOf(k) == runs[k].returned.value.bytes
DurationOf(k) == runs[k].returned.value.duration.value

C17_StatsMonotone ==
    /\ [](command = "parse"
            => /\ stats.successful_parses <= stats.total_parses
               /\ stats.total_parses <= Cardinality(Completed)
               /\ stats.total_parses <= idx)
    /\ [][command = "parse"
            => /\ stats'.total_parses >= stats.total_parses
               /\ stats'.successful_parses >= stats.successful_parses
               /\ stats'.total_bytes >= stats.total_bytes
               /\ stats'.total_duration >= stats.total_duration]_vars

C17_Witness ==
    /\ command = "parse" /\ should_track_stats
    /\ pc = "loop"
    /\ Len(runs) = 3
    /\ stats.successful_parses = 1
    /\ stats.total_parses = 3
    /\ BytesOf(2) < BytesOf(1)
    /\ runs[1].returned.value.duration.given /\ runs[2].returned.value.duration.given

ConfigError ==
    \/ ret \in {"read_failed", "invalid_glob", "no_files", "must_provide"}
    \/ ret = "ok" /\ result = <<>>
    \/ scope.given /\ scope.value \notin KnownScopes

\* C14: an unreadable paths file, an invalid glob pattern, an empty resolved
\* set, no paths at all, or an unknown --scope ends the invocation with exit
\* status 1, and no file has been handed to the parser or the highlighter.
C14_ConfigErrorsAreFatal ==
    /\ ConfigError => runs = <<>>
    /\ (pc = "exited" /\ ConfigError) => exit_code = 1

\* C15: in highlight without --scope a path with no language gets a message and
\* the loop goes on to the next path: a message never ends the loop, every path
\* consumed so far was either highlighted or passed over with a message, and when
\* run returns Ok every path of the resolved set with a language was highlighted
\* or has no highlight configuration, however many paths were passed over.
OccurrencesIn(s, p) == Cardinality({k \in 1..Len(s) : s[k].path = p})

PassedOver(p) ==
    Cardinality({k \in 1..Len(warnings) :
                    warnings[k].path = p /\ warnings[k].message = "no language"})

C15_SkipIsNotFatal ==
    /\ []((command = "highlight" /\ ~scope.given)
            => /\ pc = "highlight" => Len(runs) + Len(warnings) = idx
               /\ \A k \in 1..Len(runs) : runs[k].path \in LanguageFiles
               /\ (pc = "exited" /\ exit_code = 0)
                    => /\ idx = Len(result)
                       /\ \A p \in Range(result) :
                             /\ Count(p, result)
                                  = OccurrencesIn(runs, p) + OccurrencesIn(warnings, p)
                             /\ p \notin LanguageFiles
                                  => PassedOver(p) = Count(p, result)
                             /\ p \in LanguageFiles => PassedOver(p) = 0)
    /\ [][(command = "highlight" /\ Len(warnings') > Len(warnings))
            => /\ pc' = "highlight"
               /\ exit_code' = -1
               /\ idx' = idx + 1
               /\ runs' = runs]_vars

C15_Witness ==
    /\ command = "highlight" /\ ~scope.given
    /\ pc = "exited" /\ exit_code = 0
    /\ Len(result) >= 2
    /\ result[1] \notin LanguageFiles
    /\ PassedOver(result[1]) >= 1
    /\ Len(runs) >= 1
    /\ runs[Len(runs)].path = result[Len(result)]
    /\ runs[Len(runs)].returned.given

\* C16: the flag made by cancel_on_signal is the one every per-file call gets,
\* and only the signal handler stores into it: it never goes back to unset, each
\* call is passed its current value, and once a call saw it set every later call
\* of the invocation sees it set.
C16_FlagSharedNeverReset ==
    /\ [](\A k \in 1..Len(runs) :
             runs[k].flag => /\ cancellation_flag
                             /\ \A j \in k..Len(runs) : runs[j].flag)
    /\ [][/\ cancellation_flag => cancellation_flag'
          /\ Len(runs') > Len(runs)
               => runs'[Len(runs')].flag = cancellation_flag]_vars

C16_Witness ==
    /\ Len(runs) = 3
    /\ ~runs[1].flag
    /\ runs[2].flag
    /\ runs[3].flag
    /\ runs[3].returned.given

====
